---- MODULE Spec2Model ----
(***************************************************************************)
(* Persistent Cognition Engine (src/persistent_cognition.py, class ISBE).  *)
(* The session object, the loop thread (_loop, _think_once, _compress,     *)
(* _respond_to_human), the threads that call speak(), and the thread that  *)
(* calls start(), stop() and status().                                     *)
(*                                                                         *)
(* Text is a sequence of chunks [k, id, n]: k names where the characters   *)
(* come from, id tells two texts of the same kind apart, n is the number   *)
(* of characters.  The empty string is the empty sequence.                 *)
(***************************************************************************)
EXTENDS Integers, Sequences, FiniteSets, TLC

\* ------------------------------------------------------------------ bounds
MaxCalls == 3          \* backend calls (_generate) the loop makes in a run
MaxSpeaks == 2         \* speak() calls made in a run

\* the threads that call speak(): the shell thread of run_shell
Callers == {1}

\* ------------------------------------------------------------------ text
Chunk(k, id, n) == [k |-> k, id |-> id, n |-> n]

Str(k, id, n) == IF n = 0 THEN <<>> ELSE <<Chunk(k, id, n)>>

RECURSIVE StrLen(_)
StrLen(s) == IF s = <<>> THEN 0 ELSE Head(s).n + StrLen(Tail(s))

IsPrefix(p, s) == Len(p) <= Len(s) /\ SubSeq(s, 1, Len(p)) = p

\* Python's None, kept a sequence so that it compares with every text
None == <<Chunk("None", 0, 0)>>

\* truth value of `x or ...` for x a str or None
Truthy(s) == s # None /\ s # <<>>

\* the literals of the source, by their length in characters
CoreLabel == Str("core", 0, 8)
ContinuationCue == Str("cue", 0, 33)
Separator == Str("nl", 0, 1)
HumanMarkerLen == 10
ResponseCueLen == 8
NoResponse == Str("sentinel", 0, 6)

\* a message passed to speak(): "hello"
MsgLen == 5
Message(id) == Str("msg", id, MsgLen)

\* what an f-string prints for a message: the text, or "None"
Format(message) == IF message = None THEN Str("nonestr", 0, 4) ELSE message

MsgId(message) == IF message = None \/ message = <<>> THEN 0 ELSE message[1].id

\* f"\n\n[人間の声]: {message}\n\n[応答]:\n"
Injection(message) ==
    Str("voice", 0, HumanMarkerLen) \o Format(message) \o Str("cue2", 0, ResponseCueLen)

\* text as the backend returns it: ws blanks on either side of n characters
Raw(k, id, n, ws) == Str("ws", 0, ws) \o Str(k, id, n) \o Str("ws", 0, ws)

\* str.strip(): the blanks at either end go
RECURSIVE Strip(_)
Strip(s) ==
    IF s = <<>> THEN <<>>
    ELSE IF Head(s).k = "ws" THEN Strip(Tail(s))
    ELSE IF s[Len(s)].k = "ws" THEN Strip(SubSeq(s, 1, Len(s) - 1))
    ELSE s

\* ------------------------------------------------------------------ seeds
\* a line of a seed: its length and the substrings the extraction looks for
Line(n, hdr, end, tool, pat) ==
    [n |-> n, hdr |-> hdr, end |-> end, tool |-> tool, pat |-> pat]

Plain(n) == Line(n, FALSE, FALSE, FALSE, FALSE)

\* TOOL_HEADER split at "\n" (the text ends in "\n\n")
ToolHeaderLines ==
    << Line(10, TRUE, FALSE, FALSE, FALSE),
       Line(33, FALSE, FALSE, TRUE, TRUE),
       Line(38, FALSE, FALSE, TRUE, TRUE),
       Line(27, FALSE, FALSE, TRUE, TRUE),
       Line(39, FALSE, FALSE, TRUE, TRUE),
       Plain(0),
       Line(34, FALSE, TRUE, FALSE, FALSE),
       Plain(0),
       Plain(3),
       Plain(0) >>

\* custom seeds: "XXX", and TOOL_HEADER + "XXX"
SeedPlain == <<Plain(3)>>
SeedTools == ToolHeaderLines \o <<Plain(3)>>
Seeds == {SeedPlain, SeedTools}

RECURSIVE SumLen(_)
SumLen(lines) == IF lines = <<>> THEN 0 ELSE Head(lines).n + SumLen(Tail(lines))

\* len("\n".join(lines))
JoinLen(lines) == IF lines = <<>> THEN 0 ELSE SumLen(lines) + Len(lines) - 1

\* str.strip() of joined lines: blank lines at either end go
RECURSIVE StripLines(_)
StripLines(lines) ==
    IF lines = <<>> THEN <<>>
    ELSE IF Head(lines).n = 0 THEN StripLines(Tail(lines))
    ELSE IF lines[Len(lines)].n = 0 THEN StripLines(SubSeq(lines, 1, Len(lines) - 1))
    ELSE lines

SeedId(seed) == Len(seed)

SeedText(seed) == Str("seed", SeedId(seed), JoinLen(seed))

\* the section loop of __init__: from the first header line, to the first
\* line after it (or the same line) that closes the section
RECURSIVE ToolSection(_, _)
ToolSection(lines, in_section) ==
    IF lines = <<>> THEN <<>>
    ELSE LET line == Head(lines)
             inside == in_section \/ line.hdr
         IN  IF ~inside THEN ToolSection(Tail(lines), FALSE)
             ELSE IF line.end THEN <<line>>
             ELSE <<line>> \o ToolSection(Tail(lines), TRUE)

ToolLines(lines) == SelectSeq(lines, LAMBDA l : l.pat)

FallbackHeadLen == 11
FallbackTailLen == 31

ToolDefinitions(seed) ==
    IF ~(\E i \in 1..Len(seed) : seed[i].tool) THEN <<>>
    ELSE LET tool_section == ToolSection(seed, FALSE)
             tool_lines == ToolLines(seed)
         IN  IF tool_section # <<>>
             THEN Str("tools", SeedId(seed), JoinLen(StripLines(tool_section)) + 2)
             ELSE IF tool_lines # <<>>
             THEN Str("tools", SeedId(seed),
                      FallbackHeadLen + JoinLen(StripLines(tool_lines)) + FallbackTailLen)
             ELSE <<>>

\* ------------------------------------------------------------------ state
VARIABLES
    seed_text, tool_definitions,      \* fixed by __init__
    alive, thinking,
    thought_count, compression_count, total_tokens_generated,
    context_text,
    human_input, human_event, response_text, response_event,
    log,                              \* the records _log wrote, in order
    errors,                           \* the error lines _think_once printed
    owed,                             \* the last append left the context over the
                                      \* threshold and _compress was not entered since
    pc, frame,                        \* the loop thread: position and locals
    inflight,                         \* backend requests not yet returned
    calls,                            \* backend calls made so far
    mpc,                              \* the controlling thread
    parked,                           \* while stop() runs: the callers that were blocked
                                      \* in speak() when it was called
    cpc, cmsg, cwait, cret,           \* the speak() callers: position and locals
    speaks                            \* speak() calls made so far

session == <<seed_text, tool_definitions, alive, thinking, thought_count,
             compression_count, total_tokens_generated, context_text, log, errors, owed>>
channel == <<human_input, human_event, response_text, response_event>>
loopvars == <<pc, frame, inflight, calls>>
callervars == <<cpc, cmsg, cwait, cret, speaks>>
vars == <<session, channel, loopvars, mpc, parked, callervars>>

\* status(): the dict it returns, read from the fields as they are
Status == [thoughts |-> thought_count, compressions |-> compression_count,
           context_chars |-> StrLen(context_text),
           total_tokens |-> total_tokens_generated, thinking |-> thinking]

NoFrame == [msg |-> None, new_text |-> None, response |-> None, dialog_context |-> <<>>,
            before_chars |-> 0, turn |-> "none", raised |-> FALSE, timer |-> "off"]

Init ==
    /\ \E seed \in Seeds :
          /\ seed_text = SeedText(seed)
          /\ tool_definitions = ToolDefinitions(seed)
    /\ alive = FALSE
    /\ thinking = FALSE
    /\ thought_count = 0
    /\ compression_count = 0
    /\ total_tokens_generated = 0
    /\ context_text = <<>>
    /\ human_input = None
    /\ human_event = FALSE
    /\ response_text = None
    /\ response_event = FALSE
    /\ log = <<>>
    /\ errors = 0
    /\ owed = FALSE
    /\ pc = "new"
    /\ frame = NoFrame
    /\ inflight = {}
    /\ calls = 0
    /\ mpc = "new"
    /\ parked = {}
    /\ cpc = [c \in Callers |-> "out"]
    /\ cmsg = [c \in Callers |-> None]
    /\ cwait = [c \in Callers |-> "none"]
    /\ cret = [c \in Callers |-> None]
    /\ speaks = 0

\* start(): load() sets the context to the seed, then the thread starts
Start ==
    /\ mpc = "new"
    /\ mpc' = "started"
    /\ context_text' = seed_text
    /\ alive' = TRUE
    /\ pc' = "while"
    /\ UNCHANGED <<seed_text, tool_definitions, thinking, thought_count,
                   compression_count, total_tokens_generated, log, errors, owed>>
    /\ UNCHANGED <<channel, frame, inflight, calls, parked, callervars>>

\* ------------------------------------------------------------------ backend
\* what one HTTP call can produce: an exception, or a text and a token count
Failure == [ok |-> FALSE, text |-> <<>>, tokens |-> 0]

ThoughtLens == {0, 10, 60}
SummaryLens == {0, 30}
ReplyLens == {0, 10}

Lens(kind) == CASE kind = "thought" -> ThoughtLens
                [] kind = "summary" -> SummaryLens
                [] kind = "reply" -> ReplyLens

Outcomes(kind, id) ==
    {Failure} \cup
    { [ok |-> TRUE, text |-> Raw(kind, id, n, IF n = 10 THEN 0 ELSE 2), tokens |-> n \div 5] :
        n \in Lens(kind) }

\* _generate: the completion API, and the chat API when that one raises
Generate(completion, chat) == IF completion.ok THEN completion ELSE chat

\* a blocking HTTP call: in flight from the request to its return
Issue(kind, requests) == requests \cup {kind}

\* a call that is left behind in flight when control comes back
ReturnLeak(kind, requests) == requests

Return(kind, requests) == requests \ {kind}

\* ------------------------------------------------------------------ session
CompressAt == 50       \* compress_at_chars (default 5000)
MaxContext == 60       \* max_context_chars (default 6000)

\* the check against the other configured length
CompressCheckMax(text) == StrLen(text) > MaxContext

CompressCheck(text) == StrLen(text) > CompressAt

\* a rebuilt context that forgets the tool definitions
CompressedContextNoTools(tools, summary) ==
    CoreLabel \o summary \o ContinuationCue

\* the context _compress builds
CompressedContext(tools, summary) ==
    tools \o CoreLabel \o summary \o ContinuationCue

\* an append that leaves the newline out
ThinkAppendNoSeparator(context, new_text) == context \o new_text

\* self.context_text += new_text + "\n"
ThinkAppend(context, new_text) == context \o new_text \o Separator

\* a dialog turn that keeps the question and drops the reply
DialogContextNoReply(dialog_context, response) == dialog_context \o Separator

\* the context a dialog turn leaves
DialogContext(dialog_context, response) == dialog_context \o response \o Separator

\* `self._response_text or "(応答なし)"`
SpeakResult(text) == IF Truthy(text) THEN text ELSE NoResponse

NoMeta == [tokens_generated |-> 0, before_chars |-> 0, after_chars |-> 0,
           compression_number |-> 0, human |-> None]

\* the entry _log writes, with the fields of the state it reads
LogEntry(kind, content, n, chars, meta) ==
    [kind |-> kind, content |-> content, n |-> n, context_chars |-> chars, meta |-> meta]

\* ------------------------------------------------------------------ _loop
LoopWhile ==
    /\ pc = "while"
    /\ pc' = IF alive THEN "check_event" ELSE "exited"
    /\ frame' = NoFrame
    /\ UNCHANGED <<session, channel, inflight, calls, mpc, parked, callervars>>

LoopCheckEvent ==
    /\ pc = "check_event"
    /\ pc' = IF human_event THEN "take_msg" ELSE "think_begin"
    /\ UNCHANGED <<session, channel, frame, inflight, calls, mpc, parked, callervars>>

LoopTakeMsg ==
    /\ pc = "take_msg"
    /\ frame' = [NoFrame EXCEPT !.msg = human_input, !.turn = "respond"]
    /\ pc' = "clear_event"
    /\ UNCHANGED <<session, channel, inflight, calls, mpc, parked, callervars>>

LoopClearEvent ==
    /\ pc = "clear_event"
    /\ human_event' = FALSE
    /\ pc' = "respond_begin"
    /\ UNCHANGED <<session, human_input, response_text, response_event,
                   frame, inflight, calls, mpc, parked, callervars>>

LoopSetResponse ==
    /\ pc = "set_response"
    /\ response_text' = frame.response
    /\ pc' = "signal"
    /\ UNCHANGED <<session, human_input, human_event, response_event,
                   frame, inflight, calls, mpc, parked, callervars>>

LoopSignal ==
    /\ pc = "signal"
    /\ response_event' = TRUE
    /\ pc' = "while"
    /\ frame' = NoFrame
    /\ UNCHANGED <<session, human_input, human_event, response_text,
                   inflight, calls, mpc, parked, callervars>>

\* time goes by in _human_event.wait(timeout=...): the timeout is over
LoopTimeout ==
    /\ pc = "wait"
    /\ frame.timer = "running"
    /\ frame' = [frame EXCEPT !.timer = "elapsed"]
    /\ UNCHANGED <<session, channel, pc, inflight, calls, mpc, parked, callervars>>

\* a time.sleep in the place of the wait: only the timeout ends it
LoopSleep ==
    /\ pc = "wait"
    /\ frame.timer = "elapsed"
    /\ pc' = "while"
    /\ UNCHANGED <<session, channel, frame, inflight, calls, mpc, parked, callervars>>

\* _human_event.wait(timeout=...): returns at the event or at the timeout
LoopWait ==
    /\ pc = "wait"
    /\ human_event \/ frame.timer = "elapsed"
    /\ pc' = "while"
    /\ UNCHANGED <<session, channel, frame, inflight, calls, mpc, parked, callervars>>

\* ------------------------------------------------------------------ _think_once
ThinkBegin ==
    /\ pc = "think_begin"
    /\ calls < MaxCalls
    /\ thinking' = TRUE
    /\ frame' = [NoFrame EXCEPT !.turn = "think"]
    /\ inflight' = Issue("think", inflight)
    /\ calls' = calls + 1
    /\ pc' = "think_gen"
    /\ UNCHANGED <<seed_text, tool_definitions, alive, thought_count, compression_count,
                   total_tokens_generated, context_text, log, errors, owed>>
    /\ UNCHANGED <<channel, mpc, parked, callervars>>

ThinkReturn ==
    /\ pc = "think_gen"
    /\ \E completion \in Outcomes("thought", 0), chat \in Outcomes("thought", 0) :
         LET r == Generate(completion, chat)
             new_text == Strip(r.text)
         IN  /\ r.ok
             /\ inflight' = Return("think", inflight)
             /\ IF new_text = <<>>
                THEN /\ pc' = "think_finally"
                     /\ UNCHANGED <<thought_count, total_tokens_generated, context_text,
                                    log, owed>>
                ELSE /\ thought_count' = thought_count + 1
                     /\ total_tokens_generated' = total_tokens_generated + r.tokens
                     /\ context_text' = ThinkAppend(context_text, new_text)
                     /\ log' = Append(log, LogEntry("thought", new_text, thought_count',
                                  StrLen(context_text'),
                                  [NoMeta EXCEPT !.tokens_generated = r.tokens]))
                     /\ owed' = (StrLen(context_text') > CompressAt)
                     /\ pc' = IF CompressCheck(context_text')
                              THEN "compress_begin" ELSE "think_finally"
             /\ frame' = [frame EXCEPT !.new_text = new_text]
    /\ UNCHANGED <<seed_text, tool_definitions, alive, thinking, compression_count, errors>>
    /\ UNCHANGED <<channel, calls, mpc, parked, callervars>>

\* a turn that counts the thought before the backend has answered
ThinkFailCounts ==
    /\ pc = "think_gen"
    /\ \E completion \in Outcomes("thought", 0), chat \in Outcomes("thought", 0) :
         ~Generate(completion, chat).ok
    /\ inflight' = Return("think", inflight)
    /\ errors' = errors + 1
    /\ thought_count' = thought_count + 1
    /\ pc' = "think_finally"
    /\ UNCHANGED <<seed_text, tool_definitions, alive, thinking,
                   compression_count, total_tokens_generated, context_text, log, owed>>
    /\ UNCHANGED <<channel, frame, calls, mpc, parked, callervars>>

\* except Exception: print, time.sleep(2)
ThinkFail ==
    /\ pc = "think_gen"
    /\ \E completion \in Outcomes("thought", 0), chat \in Outcomes("thought", 0) :
         ~Generate(completion, chat).ok
    /\ inflight' = Return("think", inflight)
    /\ errors' = errors + 1
    /\ pc' = "think_finally"
    /\ UNCHANGED <<seed_text, tool_definitions, alive, thinking, thought_count,
                   compression_count, total_tokens_generated, context_text, log, owed>>
    /\ UNCHANGED <<channel, frame, calls, mpc, parked, callervars>>

ThinkFinally ==
    /\ pc = "think_finally"
    /\ thinking' = FALSE
    /\ frame' = [NoFrame EXCEPT !.timer = "running"]
    /\ pc' = "wait"
    /\ UNCHANGED <<seed_text, tool_definitions, alive, thought_count, compression_count,
                   total_tokens_generated, context_text, log, errors, owed>>
    /\ UNCHANGED <<channel, inflight, calls, mpc, parked, callervars>>

\* ------------------------------------------------------------------ _compress
CompressBegin ==
    /\ pc = "compress_begin"
    /\ calls < MaxCalls
    /\ compression_count' = compression_count + 1
    /\ owed' = FALSE
    /\ frame' = [frame EXCEPT !.before_chars = StrLen(context_text)]
    /\ inflight' = Issue("compress", inflight)
    /\ calls' = calls + 1
    /\ pc' = "compress_gen"
    /\ UNCHANGED <<seed_text, tool_definitions, alive, thinking, thought_count,
                   total_tokens_generated, context_text, log, errors>>
    /\ UNCHANGED <<channel, mpc, parked, callervars>>

CompressReturn ==
    /\ pc = "compress_gen"
    /\ \E completion \in Outcomes("summary", 0), chat \in Outcomes("summary", 0) :
         LET r == Generate(completion, chat)
             summary == Strip(r.text)
         IN  /\ r.ok
             /\ context_text' = CompressedContext(tool_definitions, summary)
             /\ log' = Append(log, LogEntry("compress", summary, thought_count,
                          StrLen(context_text'),
                          [NoMeta EXCEPT !.before_chars = frame.before_chars,
                                         !.after_chars = StrLen(context_text'),
                                         !.compression_number = compression_count]))
    /\ inflight' = Return("compress", inflight)
    /\ pc' = IF frame.turn = "think" THEN "think_finally" ELSE "respond_finally"
    /\ UNCHANGED <<seed_text, tool_definitions, alive, thinking, thought_count,
                   compression_count, total_tokens_generated, errors, owed>>
    /\ UNCHANGED <<channel, frame, calls, mpc, parked, callervars>>

\* a failed summary taken as an empty one: the context is rebuilt all the same
CompressFailRebuilds ==
    /\ pc = "compress_gen"
    /\ \E completion \in Outcomes("summary", 0), chat \in Outcomes("summary", 0) :
         ~Generate(completion, chat).ok
    /\ inflight' = Return("compress", inflight)
    /\ context_text' = CompressedContext(tool_definitions, <<>>)
    /\ frame' = [frame EXCEPT !.raised = (frame.turn = "respond")]
    /\ errors' = IF frame.turn = "think" THEN errors + 1 ELSE errors
    /\ pc' = IF frame.turn = "think" THEN "think_finally" ELSE "respond_finally"
    /\ UNCHANGED <<seed_text, tool_definitions, alive, thinking, thought_count,
                   compression_count, total_tokens_generated, log, owed>>
    /\ UNCHANGED <<channel, calls, mpc, parked, callervars>>

\* the exception leaves _compress: caught in _think_once, not in _respond_to_human
CompressFail ==
    /\ pc = "compress_gen"
    /\ \E completion \in Outcomes("summary", 0), chat \in Outcomes("summary", 0) :
         ~Generate(completion, chat).ok
    /\ inflight' = Return("compress", inflight)
    /\ frame' = [frame EXCEPT !.raised = (frame.turn = "respond")]
    /\ errors' = IF frame.turn = "think" THEN errors + 1 ELSE errors
    /\ pc' = IF frame.turn = "think" THEN "think_finally" ELSE "respond_finally"
    /\ UNCHANGED <<seed_text, tool_definitions, alive, thinking, thought_count,
                   compression_count, total_tokens_generated, context_text, log, owed>>
    /\ UNCHANGED <<channel, calls, mpc, parked, callervars>>

\* ------------------------------------------------------------------ _respond_to_human
RespondBegin ==
    /\ pc = "respond_begin"
    /\ calls < MaxCalls
    /\ thinking' = TRUE
    /\ frame' = [frame EXCEPT !.dialog_context = context_text \o Injection(frame.msg)]
    /\ inflight' = Issue("dialog", inflight)
    /\ calls' = calls + 1
    /\ pc' = "respond_gen"
    /\ UNCHANGED <<seed_text, tool_definitions, alive, thought_count, compression_count,
                   total_tokens_generated, context_text, log, errors, owed>>
    /\ UNCHANGED <<channel, mpc, parked, callervars>>

RespondReturn ==
    /\ pc = "respond_gen"
    /\ \E completion \in Outcomes("reply", MsgId(frame.msg)),
          chat \in Outcomes("reply", MsgId(frame.msg)) :
         LET r == Generate(completion, chat)
             response == Strip(r.text)
         IN  /\ r.ok
             /\ frame' = [frame EXCEPT !.response = response]
             /\ context_text' = DialogContext(frame.dialog_context, response)
             /\ log' = Append(log, LogEntry("dialog", response, thought_count,
                          StrLen(context_text'), [NoMeta EXCEPT !.human = frame.msg]))
    /\ inflight' = Return("dialog", inflight)
    /\ owed' = (StrLen(context_text') > CompressAt)
    /\ pc' = IF CompressCheck(context_text') THEN "compress_begin" ELSE "respond_finally"
    /\ UNCHANGED <<seed_text, tool_definitions, alive, thinking, thought_count,
                   compression_count, total_tokens_generated, errors>>
    /\ UNCHANGED <<channel, calls, mpc, parked, callervars>>

RespondFail ==
    /\ pc = "respond_gen"
    /\ \E completion \in Outcomes("reply", 0), chat \in Outcomes("reply", 0) :
         ~Generate(completion, chat).ok
    /\ inflight' = Return("dialog", inflight)
    /\ frame' = [frame EXCEPT !.raised = TRUE]
    /\ pc' = "respond_finally"
    /\ UNCHANGED <<session, channel, calls, mpc, parked, callervars>>

\* a dialog turn without the finally clause: thinking stays set
RespondFinallyKeepsFlag ==
    /\ pc = "respond_finally"
    /\ pc' = IF frame.raised THEN "crashed" ELSE "set_response"
    /\ UNCHANGED <<session, channel, frame, inflight, calls, mpc, parked, callervars>>

\* finally: thinking = False; then the return, or the exception leaves _loop
RespondFinally ==
    /\ pc = "respond_finally"
    /\ thinking' = FALSE
    /\ pc' = IF frame.raised THEN "crashed" ELSE "set_response"
    /\ UNCHANGED <<seed_text, tool_definitions, alive, thought_count, compression_count,
                   total_tokens_generated, context_text, log, errors, owed>>
    /\ UNCHANGED <<channel, frame, inflight, calls, mpc, parked, callervars>>

Loop ==
    \/ LoopWhile \/ LoopCheckEvent \/ LoopTakeMsg \/ LoopClearEvent
    \/ LoopSetResponse \/ LoopSignal \/ LoopTimeout \/ LoopWait
    \/ ThinkBegin \/ ThinkReturn \/ ThinkFail \/ ThinkFinally
    \/ CompressBegin \/ CompressReturn \/ CompressFail
    \/ RespondBegin \/ RespondReturn \/ RespondFail \/ RespondFinally

\* ------------------------------------------------------------------ speak
SpeakInput(c) ==
    /\ cpc[c] = "out"
    /\ mpc # "new"
    /\ speaks < MaxSpeaks
    /\ speaks' = speaks + 1
    /\ cmsg' = [cmsg EXCEPT ![c] = Message(speaks')]
    /\ cwait' = [cwait EXCEPT ![c] = "none"]
    /\ cret' = [cret EXCEPT ![c] = None]
    /\ human_input' = cmsg'[c]
    /\ cpc' = [cpc EXCEPT ![c] = "clear"]
    /\ UNCHANGED <<session, human_event, response_text, response_event,
                   loopvars, mpc, parked>>

SpeakClear(c) ==
    /\ cpc[c] = "clear"
    /\ response_event' = FALSE
    /\ cpc' = [cpc EXCEPT ![c] = "set"]
    /\ UNCHANGED <<session, human_input, human_event, response_text,
                   loopvars, mpc, parked, cmsg, cwait, cret, speaks>>

SpeakSet(c) ==
    /\ cpc[c] = "set"
    /\ human_event' = TRUE
    /\ cpc' = [cpc EXCEPT ![c] = "wait"]
    /\ UNCHANGED <<session, human_input, response_text, response_event,
                   loopvars, mpc, parked, cmsg, cwait, cret, speaks>>

\* _response_event.wait(timeout=300) returns True: the event is set
SpeakWake(c) ==
    /\ cpc[c] = "wait"
    /\ response_event
    /\ cwait' = [cwait EXCEPT ![c] = "event"]
    /\ cpc' = [cpc EXCEPT ![c] = "return"]
    /\ UNCHANGED <<session, channel, loopvars, mpc, parked, cmsg, cret, speaks>>

\* _response_event.wait(timeout=300) returns False: 300 s went by
SpeakTimeout(c) ==
    /\ cpc[c] = "wait"
    /\ ~response_event
    /\ cwait' = [cwait EXCEPT ![c] = "timeout"]
    /\ cpc' = [cpc EXCEPT ![c] = "return"]
    /\ UNCHANGED <<session, channel, loopvars, mpc, parked, cmsg, cret, speaks>>

SpeakReturn(c) ==
    /\ cpc[c] = "return"
    /\ cret' = [cret EXCEPT ![c] = SpeakResult(response_text)]
    /\ cpc' = [cpc EXCEPT ![c] = "out"]
    /\ UNCHANGED <<session, channel, loopvars, mpc, parked, cmsg, cwait, speaks>>

Speak(c) ==
    \/ SpeakInput(c) \/ SpeakClear(c) \/ SpeakSet(c)
    \/ SpeakWake(c) \/ SpeakTimeout(c) \/ SpeakReturn(c)

\* ------------------------------------------------------------------ stop
StopAlive ==
    /\ mpc = "started"
    /\ alive' = FALSE
    /\ mpc' = "stopping"
    /\ parked' = {c \in Callers : cpc[c] = "wait"}
    /\ UNCHANGED <<seed_text, tool_definitions, thinking, thought_count, compression_count,
                   total_tokens_generated, context_text, log, errors, owed>>
    /\ UNCHANGED <<channel, loopvars, callervars>>

StopEvent ==
    /\ mpc = "stopping"
    /\ human_event' = TRUE
    /\ mpc' = "stopped"
    /\ parked' = {}
    /\ UNCHANGED <<session, human_input, response_text, response_event,
                   loopvars, callervars>>

Next ==
    \/ Start \/ StopAlive \/ StopEvent
    \/ Loop
    \/ \E c \in Callers : Speak(c)

Spec == Init /\ [][Next]_vars

\* ------------------------------------------------------------------ properties
PhaseOf(kind) == CASE kind = "think" -> "Thinking"
                   [] kind = "compress" -> "Compressing"
                   [] kind = "dialog" -> "Responding"

\* the phase whose backend call the loop thread is blocked in
PcPhase == CASE pc = "think_gen" -> {"Thinking"}
             [] pc = "compress_gen" -> {"Compressing"}
             [] pc = "respond_gen" -> {"Responding"}
             [] OTHER -> {}

ActivePhases == {PhaseOf(kind) : kind \in inflight} \cup PcPhase

LogKinds(kind) == {i \in 1..Len(log) : log[i].kind = kind}

\* a dialog turn has produced a reply to this message
Answered(message) == \E i \in LogKinds("dialog") : log[i].meta.human = message

Returned(c) == cpc[c] = "out" /\ cret[c] # None

\* C1: in every reachable state at most one of Thinking, Compressing,
\* Responding is active, whatever speak() and stop() do meanwhile.
C1_MutualExclusion == Cardinality(ActivePhases) <= 1

C1_Witness ==
    /\ pc = "compress_gen"
    /\ ActivePhases = {"Compressing"}
    /\ mpc = "stopping"
    /\ \E c \in Callers : cpc[c] = "wait"

\* C2: the loop is over only when the session was stopped: no state has the
\* loop thread ended while alive is true and stop() was never called.
C2_LoopEndsOnlyOnStop ==
    ~(pc \in {"exited", "crashed"} /\ alive /\ mpc = "started")

\* C3: a speak() call whose wait timed out, and to whose message no reply
\* was produced, returns the no-response sentinel.
C3_TimeoutGivesSentinel ==
    \A c \in Callers :
        (Returned(c) /\ cwait[c] = "timeout" /\ ~Answered(cmsg[c]))
            => cret[c] = NoResponse

\* C4: a speak() call that was woken in time by a dialog turn on its own
\* message whose reply is the empty string returns something other than the
\* no-response sentinel.
C4_EmptyReplyIsNotSentinel ==
    \A c \in Callers :
        (/\ Returned(c)
         /\ cwait[c] = "event"
         /\ \E i \in LogKinds("dialog") : log[i].meta.human = cmsg[c] /\ log[i].content = <<>>)
            => cret[c] # NoResponse

\* C5: when stop() is called while a caller is blocked in speak(), the
\* caller's wait is released by the time stop() has set its event.
C5_StopUnblocksCaller ==
    [][(mpc = "stopping" /\ mpc' = "stopped")
          => \A c \in parked : cpc[c] = "wait" => response_event']_vars

\* C6: no think or dialog turn begins while the last append has left the
\* context over compress_at_chars and no compression was started since.
C6_CompressBeforeNextTurn ==
    pc \in {"think_gen", "respond_gen"} => ~owed

C6_Witness ==
    /\ pc = "think_gen"
    /\ compression_count > 0
    /\ \E i \in LogKinds("dialog") : log[i].context_chars > CompressAt

\* C7: every successful compression leaves a context no longer than the one
\* it started from.
C7_CompressionShrinks ==
    \A i \in LogKinds("compress") : log[i].meta.after_chars <= log[i].meta.before_chars

\* C8: right after a successful compression (nothing appended since) the
\* context starts with the tool definitions taken from the seed, and no
\* compression ever left it shorter than them.
C8_ToolPreambleKept ==
    /\ (log # <<>> /\ log[Len(log)].kind = "compress")
          => IsPrefix(tool_definitions, context_text)
    /\ \A i \in LogKinds("compress") :
          log[i].meta.after_chars >= StrLen(tool_definitions)

C8_Witness ==
    /\ tool_definitions # <<>>
    /\ log # <<>>
    /\ log[Len(log)].kind = "compress"
    /\ log[Len(log)].content # <<>>
    /\ IsPrefix(tool_definitions, context_text)
    /\ StrLen(context_text) > StrLen(tool_definitions)

\* a step in which the backend call of a compression fails
CompressFailStep ==
    pc = "compress_gen" /\ pc' # "compress_gen" /\ Len(log') = Len(log)

\* a step that appends generated text to the context
AppendStep ==
    pc \in {"think_gen", "respond_gen"} /\ context_text' # context_text

\* C9: a failed compression leaves the context and the log as they were, and
\* the next append to the still oversized context starts a compression again.
C9_FailedCompressionKeepsContext ==
    [][/\ CompressFailStep => (context_text' = context_text /\ log' = log)
       /\ (AppendStep /\ StrLen(context_text) > CompressAt)
             => (pc' = "compress_begin" /\ IsPrefix(context_text, context_text'))
       /\ (pc = "compress_begin" /\ pc' # pc)
             => (pc' = "compress_gen" /\ compression_count' = compression_count + 1)]_vars

C9_Witness ==
    /\ pc = "compress_begin"
    /\ compression_count = 1
    /\ LogKinds("compress") = {}
    /\ errors = 1
    /\ Len(log) = 2
    /\ log[1].context_chars > CompressAt
    /\ log[2].context_chars > log[1].context_chars
    /\ StrLen(context_text) = log[2].context_chars

ThinkFailStep == pc = "think_gen" /\ errors' = errors + 1

ThinkSuccessStep == pc = "think_gen" /\ pc' # "think_gen" /\ errors' = errors

\* C10 as stated: a failed think turn changes no counter, no context and no
\* log, and every think turn whose backend call succeeds adds one to
\* thought_count.
C10_EverySuccessCounts ==
    [][/\ ThinkFailStep => UNCHANGED <<thought_count, total_tokens_generated,
                                       context_text, log>>
       /\ ThinkSuccessStep => thought_count' = thought_count + 1]_vars

\* C10 amended: a failed think turn changes no counter, no context and no
\* log and leaves the loop running; a think turn whose backend call succeeds
\* adds one to thought_count when the stripped text is not empty, and
\* changes nothing when it is empty.
C10_FailureLeavesState ==
    [][/\ ThinkFailStep
          => /\ UNCHANGED <<thought_count, total_tokens_generated, context_text, log>>
             /\ pc' = "think_finally"
       /\ ThinkSuccessStep
          => IF frame'.new_text # <<>>
             THEN /\ thought_count' = thought_count + 1
                  /\ Len(log') = Len(log) + 1
             ELSE UNCHANGED <<thought_count, total_tokens_generated, context_text, log>>
       /\ (pc = "think_finally" /\ pc' # pc) => pc' = "wait"
       /\ (pc = "wait" /\ pc' # pc) => pc' = "while"]_vars

C10_Witness ==
    /\ pc = "think_finally"
    /\ Truthy(frame.new_text)
    /\ errors = 1
    /\ compression_count = 0
    /\ thought_count = 1
    /\ Len(log) = 1

\* C11 as stated: every think turn whose backend call succeeds and that
\* starts no compression leaves the context longer by the length of the
\* stripped text plus one, the empty stripped text included.
C11_EveryTurnAppends ==
    [][(ThinkSuccessStep /\ pc' # "compress_begin")
          => StrLen(context_text') = StrLen(context_text) + StrLen(frame'.new_text) + 1]_vars

\* C11 amended: a think turn whose backend call succeeds with a text that is
\* not empty after stripping leaves the context equal to the old context,
\* the stripped text and one separator character, so longer by the length of
\* the stripped text plus one; a turn whose stripped text is empty leaves
\* the context as it was.
C11_NonEmptyTurnAppends ==
    [][ThinkSuccessStep
          => IF frame'.new_text # <<>>
             THEN /\ context_text' = context_text \o frame'.new_text \o Separator
                  /\ StrLen(context_text')
                        = StrLen(context_text) + StrLen(frame'.new_text) + 1
             ELSE context_text' = context_text]_vars

C11_Witness ==
    /\ pc = "think_finally"
    /\ Truthy(frame.new_text)
    /\ errors = 0
    /\ compression_count = 0
    /\ thought_count = 2
    /\ StrLen(context_text) = StrLen(seed_text) + 2 * (StrLen(frame.new_text) + 1)

\* the loop has taken this message out of the slot for a dialog turn
Taken(message) ==
    Answered(message) \/ (frame.turn = "respond" /\ frame.msg = message)

\* the caller's last speak() has set _human_event for its message
Signalled(c) == cmsg[c] # None /\ cpc[c] \in {"wait", "return", "out"}

\* a message was handed over and the loop has not taken it
Pending == \E c \in Callers : Signalled(c) /\ ~Taken(cmsg[c])

\* C12: when the loop makes the check that opens an iteration and a message
\* was handed over by speak() and not yet taken, the iteration goes to the
\* dialog turn and starts no think turn.
C12_InterjectionFirst ==
    [][(pc = "check_event" /\ Pending) => pc' # "think_begin"]_vars

C14_NoStaleMessage ==
    pc = "respond_gen"
        => /\ frame.msg # None
           /\ \E id \in 1..speaks : frame.msg = Message(id)
           /\ ~Answered(frame.msg)

\* C15: the wait between think turns ends only when the delay is over or
\* _human_event is set, by speak() or by stop(); as soon as the event is set
\* the wait can return with the delay still running; once stop() has set the
\* event a waiting loop has it set; and the loop then acts on what woke it:
\* it leaves when the session was stopped and takes the message otherwise.
C15_WaitIsInterruptible ==
    [][/\ (pc = "wait" /\ pc' = "while") => (human_event \/ frame.timer = "elapsed")
       /\ (pc = "wait" /\ human_event) => ENABLED LoopWait
       /\ (pc = "wait" /\ mpc = "stopped") => human_event
       /\ (pc = "while" /\ frame.timer = "running" /\ pc' # pc)
             => pc' = IF alive THEN "check_event" ELSE "exited"
       /\ (pc = "check_event" /\ human_event /\ pc' # pc) => pc' = "take_msg"]_vars

C15_Witness ==
    /\ pc = "while"
    /\ frame.timer = "running"
    /\ human_event
    /\ mpc = "started"
    /\ \E c \in Callers : cpc[c] = "wait"

\* the backend call of a dialog turn returns a reply
RespondSuccessStep == pc = "respond_gen" /\ pc' # pc /\ ~frame'.raised

\* the backend call of a dialog turn raises
RespondFailStep == pc = "respond_gen" /\ frame'.raised

\* the last dialog record of the log
LastDialog == log[CHOOSE i \in LogKinds("dialog") : \A j \in LogKinds("dialog") : j <= i]

C17_ReplyIsForOwnMessage ==
    \A c \in Callers :
        (Returned(c) /\ cret[c] # NoResponse)
            => \E i \in LogKinds("dialog") :
                  log[i].meta.human = cmsg[c] /\ log[i].content = cret[c]

\* the speak() calls that have set _human_event for their message
SubmittedIds ==
    {id \in 1..speaks : \A c \in Callers : cmsg[c] = Message(id) => Signalled(c)}

\* C18: while the session is not stopped and no backend call has failed,
\* every message that a speak() call has handed over and that the loop has
\* not taken is still in the slot with its signal set; none was overwritten
\* and none had its signal cleared.
C18_NoMessageLost ==
    (mpc = "started" /\ errors = 0 /\ ~frame.raised)
        => \A id \in SubmittedIds :
              ~Taken(Message(id)) => (human_input = Message(id) /\ human_event)

\* C19: when no turn is in progress the context is no longer than
\* max_context_chars, given a seed and compressed contexts that fit in it.
C19_ContextBounded ==
    (/\ ~thinking
     /\ StrLen(seed_text) <= MaxContext
     /\ \A i \in LogKinds("compress") : log[i].meta.after_chars <= MaxContext)
        => StrLen(context_text) <= MaxContext

\* C20: when no compression is in progress, the compressions that status()
\* reports are as many as the compress records of the log.
C20_CountMatchesLog ==
    pc # "compress_gen" => Status.compressions = Cardinality(LogKinds("compress"))
====
